---- MODULE Spec2Model ----
(***************************************************************************)
(* A model of electroninserts.py: the bivariate spline model of electron   *)
(* insert factors, the deformability test and the leave-one-out percent    *)
(* differences.                                                            *)
(*                                                                         *)
(* Numbers are integers in hundredths (0.02 is 2, 0.5 is 50).  An array is *)
(* a record [shape, vals] with vals in row-major order; a scalar has the   *)
(* empty shape.  Calibration arrays are plain 1-D sequences.  Indices are  *)
(* 0-based as in the source.  A Python evaluation yields Ok(value) or      *)
(* Raise(exception name); an exception ends the enclosing call.            *)
(*                                                                         *)
(* Line 161 of the source carries a stray ':' after the outer `for`        *)
(* clause; the model reads lines 157-162 as the nested comprehension they  *)
(* spell (inner clause over i, outer clause over j).                       *)
(***************************************************************************)
EXTENDS Integers, Sequences, FiniteSets, TLC

VARIABLES
    cal_width,    \* the caller's calibration widths
    cal_ratio,    \* the caller's calibration perimeter/area ratios
    cal_factor,   \* the caller's calibration factors
    query_width,  \* the caller's query widths
    query_ratio,  \* the caller's query ratios
    op,           \* the last thing that happened: "load" or the function called
    ret,          \* what the last call returned or raised
    fits,         \* the spline fits the last call performed, in order
    calls         \* the query indices the last call scored, in order

vars == <<cal_width, cal_ratio, cal_factor, query_width, query_ratio, op, ret, fits, calls>>

(***************************************************************************)
(* Bounds of the model.                                                    *)
(***************************************************************************)
MaxLen == 2     \* longest 1-D query
MaxRows == 2    \* most rows of a 2-D query
MaxCols == 2    \* most columns of a 2-D query
MaxData == 3    \* longest calibration sequence

(***************************************************************************)
(* Python values.                                                          *)
(***************************************************************************)
Ok(v) == [tag |-> "ok", val |-> v]
Raise(e) == [tag |-> "exc", val |-> e]
IsOk(r) == r.tag = "ok"
IsExc(r) == r.tag = "exc"

\* floats that are not numbers of the model: nan and the infinities
Num(n) == [t |-> "num", v |-> n]
NaN == [t |-> "nan", v |-> 0]
Inf(sign) == [t |-> "inf", v |-> sign]

RECURSIVE SumSeq(_)
SumSeq(s) == IF s = <<>> THEN 0 ELSE Head(s) + SumSeq(Tail(s))

RECURSIVE Product(_)
Product(s) == IF s = <<>> THEN 1 ELSE Head(s) * Product(Tail(s))

SeqMin(s) == CHOOSE v \in {s[k] : k \in 1..Len(s)} : \A k \in 1..Len(s) : v <= s[k]
SeqMax(s) == CHOOSE v \in {s[k] : k \in 1..Len(s)} : \A k \in 1..Len(s) : v >= s[k]

Scalar(v) == [shape |-> <<>>, vals |-> <<v>>]
Size(a) == Len(a.vals)

\* the names bound in the module's global scope (lines 15-18 and the defs)
Globals ==
    {"np", "bkh", "SmoothBivariateSpline", "spline_model",
     "_single_calculate_deformability", "calculate_deformability",
     "spline_model_with_deformability",
     "calculate_percent_prediction_differences", "convert2_ratio_perim_area",
     "convert2_length", "parameterise", "create_report"}

\* name lookup: a name that is neither local nor global raises NameError
Bound(name, locals) == name \in locals \cup Globals

(***************************************************************************)
(* numpy.                                                                  *)
(***************************************************************************)
\* np.append(arr, v): a new array; arr (the field arg) is left as it was
NpAppendInPlace(arr, v) == [out |-> Append(arr, v), arg |-> Append(arr, v)]

NpAppend(arr, v) == [out |-> Append(arr, v), arg |-> arr]

\* np.delete(arr, i): a new array without index i; IndexError out of bounds
NpDelete(arr, i) ==
    IF i < 0 \/ i >= Len(arr) THEN [out |-> Raise("IndexError"), arg |-> arr]
    ELSE [out |-> Ok(SubSeq(arr, 1, i) \o SubSeq(arr, i + 2, Len(arr))),
          arg |-> arr]

\* a[i] of a 1-D array and a[i, j] of a 2-D array
Index1(a, i) ==
    IF i < 0 \/ i >= a.shape[1] THEN Raise("IndexError") ELSE Ok(a.vals[i + 1])

Index2(a, i, j) ==
    IF i < 0 \/ i >= a.shape[1] \/ j < 0 \/ j >= a.shape[2]
    THEN Raise("IndexError")
    ELSE Ok(a.vals[i * a.shape[2] + j + 1])

\* data[i] of a calibration sequence
DataIndex(d, i) ==
    IF i < 0 \/ i >= Len(d) THEN Raise("IndexError") ELSE Ok(d[i + 1])

\* numpy broadcasting of two shapes of the same rank
Broadcastable(s1, s2) ==
    /\ Len(s1) = Len(s2)
    /\ \A k \in 1..Len(s1) : s1[k] = s2[k] \/ s1[k] = 1 \/ s2[k] = 1

BroadcastShape(s1, s2) ==
    [k \in 1..Len(s1) |-> IF s1[k] = 1 THEN s2[k] ELSE s1[k]]

\* the value of a at flat position p of the broadcast shape s
BroadcastAt(a, s, p) ==
    IF Len(s) = 0 THEN a.vals[1]
    ELSE IF Len(s) = 1 THEN a.vals[IF a.shape[1] = 1 THEN 1 ELSE p]
    ELSE LET i == (p - 1) \div s[2]
             j == (p - 1) % s[2]
             ai == IF a.shape[1] = 1 THEN 0 ELSE i
             aj == IF a.shape[2] = 1 THEN 0 ELSE j
         IN a.vals[ai * a.shape[2] + aj + 1]

(***************************************************************************)
(* scipy.interpolate.SmoothBivariateSpline, as far as the module uses it.  *)
(***************************************************************************)
\* bbox=[None]*4, the library's default: the range of the data
NoBBox == <<>>

DefaultBBox(x, y) == <<SeqMin(x), SeqMax(x), SeqMin(y), SeqMax(y)>>

\* the constructor: the three data sequences must have one length
SmoothBivariateSpline(x, y, z, bbox) ==
    IF Len(x) # Len(y) \/ Len(x) # Len(z) \/ Len(x) = 0 THEN Raise("ValueError")
    ELSE Ok([x |-> x, y |-> y, z |-> z,
             bbox |-> IF bbox = NoBBox THEN DefaultBBox(x, y) ELSE bbox])

\* The fitted surface at one point.  The fit itself is the library's; this
\* stands for it as a deterministic function of everything the library is
\* given (the data, the box) and of the point.
Surface(s, x, y) ==
    LET m == Len(s.z)
        cx == SumSeq(s.x) \div m
        cy == SumSeq(s.y) \div m
        cz == SumSeq(s.z) \div m
        dz == s.z[m] - s.z[1]
    IN cz + (dz * (x - cx)) \div (1 + s.bbox[2] - s.bbox[1])
          - (y - cy) \div (1 + s.bbox[4] - s.bbox[3])

\* spline.ev(xi, yi): the surface at the broadcast pairs of xi and yi
Ev(s, xi, yi) ==
    IF ~Broadcastable(xi.shape, yi.shape) THEN Raise("ValueError")
    ELSE LET sh == BroadcastShape(xi.shape, yi.shape)
             n == Product(sh)
         IN Ok([shape |-> sh,
                vals |-> [p \in 1..n |->
                    Surface(s, BroadcastAt(xi, sh, p), BroadcastAt(yi, sh, p))]])

\* the pairs ev evaluates, for the log of fits
EvPoints(xi, yi) ==
    IF ~Broadcastable(xi.shape, yi.shape) THEN <<>>
    ELSE LET sh == BroadcastShape(xi.shape, yi.shape)
         IN [p \in 1..Product(sh) |->
                <<BroadcastAt(xi, sh, p), BroadcastAt(yi, sh, p)>>]

\* one entry of the log of fits: who fitted, the data and the box of the fit,
\* the query (qx, qy) the caller holds and the points the fit was evaluated at
FitEntry(who, s, qx, qy, at) ==
    [who |-> who, x |-> s.x, y |-> s.y, z |-> s.z, bbox |-> s.bbox,
     qx |-> qx, qy |-> qy, at |-> at]

NoLog == [fits |-> <<>>, calls |-> <<>>]

(***************************************************************************)
(* spline_model (lines 22-59).  It returns [ret, log]; it writes to none   *)
(* of its arguments.                                                       *)
(***************************************************************************)
\* lines 50-54, with the calibration range alone
spline_model_bbox_data_only(width_test, ratio_perim_area_test, width_data, ratio_perim_area_data) ==
    DefaultBBox(width_data, ratio_perim_area_data)

\* lines 50-54: the union of the calibration range and the query range
spline_model_bbox(width_test, ratio_perim_area_test, width_data, ratio_perim_area_data) ==
    <<SeqMin(<<SeqMin(width_data), SeqMin(width_test.vals)>>),
      SeqMax(<<SeqMax(width_data), SeqMax(width_test.vals)>>),
      SeqMin(<<SeqMin(ratio_perim_area_data), SeqMin(ratio_perim_area_test.vals)>>),
      SeqMax(<<SeqMax(ratio_perim_area_data), SeqMax(ratio_perim_area_test.vals)>>)>>

spline_model(width_test, ratio_perim_area_test, width_data, ratio_perim_area_data, factor_data, log) ==
    \* np.min / np.max of an empty array raise ValueError
    IF \/ Len(width_data) = 0 \/ Len(ratio_perim_area_data) = 0
       \/ Size(width_test) = 0 \/ Size(ratio_perim_area_test) = 0
    THEN [ret |-> Raise("ValueError"), log |-> log]
    ELSE
    LET bbox == spline_model_bbox(width_test, ratio_perim_area_test,
                                  width_data, ratio_perim_area_data)
        spline == SmoothBivariateSpline(
                      width_data, ratio_perim_area_data, factor_data, bbox)
    IN IF IsExc(spline) THEN [ret |-> spline, log |-> log]
       ELSE [ret |-> Ev(spline.val, width_test, ratio_perim_area_test),
             log |-> [log EXCEPT !.fits = Append(@,
                        FitEntry("spline_model", spline.val,
                                 width_test.vals, ratio_perim_area_test.vals,
                                 EvPoints(width_test, ratio_perim_area_test)))]]

(***************************************************************************)
(* _single_calculate_deformability (lines 62-116).  x_test and y_test are  *)
(* numbers.  It returns [ret, x_data, y_data, z_data, log], the three      *)
(* arrays being its array arguments as they are after the call.            *)
(***************************************************************************)
deviation == 2

\* the names bound in the function's scope when line 98 is evaluated
single_locals_at_98 ==
    {"x_test", "y_test", "x_data", "y_data", "z_data", "deviation",
     "adjusted_x_data", "adjusted_y_data", "bbox", "initial_model"}

\* lines 101-106: a refit of the adjusted data, with the library's default box
single_adjusted_fit(adjusted_x_data, adjusted_y_data, adjusted_z_data) ==
    SmoothBivariateSpline(adjusted_x_data, adjusted_y_data, adjusted_z_data, NoBBox)

\* lines 98-116, given the value the name in line 98 is bound to
single_from_98(x_test, y_test, ax, ay, z_data, initial_model, initial_fit, log) ==
    LET pz == NpAppend(z_data, initial_fit + deviation)
        nz == NpAppend(pz.arg, initial_fit - deviation)
        pos == single_adjusted_fit(ax.out, ay.out, pz.out)
        neg == single_adjusted_fit(ax.out, ay.out, nz.out)
        at == <<x_test, y_test>>
        plog == [log EXCEPT !.fits = Append(@,
                    FitEntry("pos_adjusted", pos.val, <<x_test>>, <<y_test>>, <<at>>))]
        nlog == [plog EXCEPT !.fits = Append(@,
                    FitEntry("neg_adjusted", neg.val, <<x_test>>, <<y_test>>, <<at>>))]
    IN IF IsExc(pos)
       THEN [ret |-> pos, x_data |-> ax.arg, y_data |-> ay.arg, z_data |-> nz.arg,
             log |-> log]
       ELSE IF IsExc(neg)
       THEN [ret |-> neg, x_data |-> ax.arg, y_data |-> ay.arg, z_data |-> nz.arg,
             log |-> plog]
       ELSE
       LET pos_adjusted_model == Surface(pos.val, x_test, y_test)
           neg_adjusted_model == Surface(neg.val, x_test, y_test)
           deformability_from_pos_adjustment ==
               (100 * (pos_adjusted_model - initial_model)) \div deviation
           deformability_from_neg_adjustment ==
               (100 * (initial_model - neg_adjusted_model)) \div deviation
       IN [ret |-> Ok(SeqMax(<<deformability_from_pos_adjustment,
                               deformability_from_neg_adjustment>>)),
           x_data |-> ax.arg, y_data |-> ay.arg, z_data |-> nz.arg, log |-> nlog]

\* lines 95-98, given the fit of line 95
single_from_95(x_test, y_test, ax, ay, z_data, fit, log) ==
    IF IsExc(fit)
    THEN [ret |-> fit, x_data |-> ax.arg, y_data |-> ay.arg, z_data |-> z_data,
          log |-> log]
    ELSE
    LET log1 == [log EXCEPT !.fits = Append(@,
                    FitEntry("initial", fit.val, <<x_test>>, <<y_test>>,
                             <<(<<x_test, y_test>>)>>))]
    IN \* line 98 reads the name initial_fit
       IF ~Bound("initial_fit", single_locals_at_98)
       THEN [ret |-> Raise("NameError"), x_data |-> ax.arg, y_data |-> ay.arg,
             z_data |-> z_data, log |-> log1]
       \* were the name bound: to the fit's value, as line 109 takes it
       ELSE single_from_98(x_test, y_test, ax, ay, z_data,
                           Surface(fit.val, x_test, y_test),
                           Surface(fit.val, x_test, y_test), log1)

\* lines 91-96, given the appended arrays of lines 88-89
single_from_91(x_test, y_test, ax, ay, z_data, log) ==
    single_from_95(x_test, y_test, ax, ay, z_data,
        SmoothBivariateSpline(ax.arg, ay.arg, z_data, DefaultBBox(ax.out, ay.out)),
        log)

single_calculate_deformability(x_test, y_test, x_data, y_data, z_data, log) ==
    single_from_91(x_test, y_test, NpAppend(x_data, x_test),
                   NpAppend(y_data, y_test), z_data, log)

(***************************************************************************)
(* calculate_deformability (lines 119-166).  x_test and y_test are arrays  *)
(* of one rank.  It returns [ret, x_data, y_data, z_data, log].            *)
(***************************************************************************)
\* a[ix] for an index tuple of one or two entries
At(a, ix) == IF Len(ix) = 1 THEN Index1(a, ix[1]) ELSE Index2(a, ix[1], ix[2])

\* lines 150-154: i in range(dim[0])
order_1d(dim) == [p \in 1..dim[1] |-> <<p - 1>>]

\* lines 157-162: j in range(dim[1]) outside, i in range(dim[0]) inside
order_2d(dim) ==
    [p \in 1..(dim[1] * dim[2]) |-> <<(p - 1) % dim[1], (p - 1) \div dim[1]>>]

\* one element of a comprehension, given what the single-point test returned
collect(acc, r) ==
    [ret |-> IF IsExc(r.ret) THEN r.ret ELSE Ok(Append(acc.ret.val, r.ret.val)),
     x_data |-> r.x_data, y_data |-> r.y_data, z_data |-> r.z_data, log |-> r.log]

\* the comprehensions: the single-point test at each index of order, in
\* order, until an evaluation raises; acc.ret collects the values
RECURSIVE map_single(_, _, _, _)
map_single(order, x_test, y_test, acc) ==
    IF order = <<>> \/ IsExc(acc.ret) THEN acc
    ELSE LET ix == Head(order)
             xv == At(x_test, ix)
             yv == At(y_test, ix)
         IN IF IsExc(xv) THEN [acc EXCEPT !.ret = xv]
            ELSE IF IsExc(yv) THEN [acc EXCEPT !.ret = yv]
            ELSE map_single(Tail(order), x_test, y_test,
                     collect(acc, single_calculate_deformability(
                         xv.val, yv.val, acc.x_data, acc.y_data, acc.z_data,
                         [acc.log EXCEPT !.calls = Append(@, ix)])))

\* the names bound in the function's scope when line 164 is evaluated
deformability_locals_at_164 ==
    {"x_test", "y_test", "x_data", "y_data", "z_data", "dim", "deformability"}

\* lines 145-162: the list (or the number) the three branches build
deformability_values(x_test, y_test, x_data, y_data, z_data, log) ==
    LET dim == x_test.shape
        start == [ret |-> Ok(<<>>), x_data |-> x_data, y_data |-> y_data,
                  z_data |-> z_data, log |-> log]
    IN IF Len(dim) = 0
       THEN single_calculate_deformability(
                x_test.vals[1], y_test.vals[1], x_data, y_data, z_data,
                [log EXCEPT !.calls = Append(@, <<>>)])
       ELSE IF Len(dim) = 1
       THEN map_single(order_1d(dim), x_test, y_test, start)
       ELSE map_single(order_2d(dim), x_test, y_test, start)

\* np.array of the nested lists: the outer list is the first axis
deformability_array(dim, values) ==
    IF Len(dim) = 0 THEN Scalar(values)
    ELSE IF Len(dim) = 1 THEN [shape |-> <<Len(values)>>, vals |-> values]
    ELSE [shape |-> <<dim[2], dim[1]>>, vals |-> values]

\* line 164, given what lines 145-162 built
deformability_from_164(dim, r) ==
    IF IsExc(r.ret) THEN r
    \* line 164 reads the name dims
    ELSE IF ~Bound("dims", deformability_locals_at_164)
    THEN [r EXCEPT !.ret = Raise("NameError")]
    ELSE IF deformability_array(dim, r.ret.val).shape # dim
    THEN [r EXCEPT !.ret = Raise("AssertionError")]
    ELSE [r EXCEPT !.ret = Ok(deformability_array(dim, r.ret.val))]

calculate_deformability(x_test, y_test, x_data, y_data, z_data, log) ==
    deformability_from_164(x_test.shape,
        deformability_values(x_test, y_test, x_data, y_data, z_data, log))

(***************************************************************************)
(* spline_model_with_deformability (lines 169-207).                        *)
(***************************************************************************)
Threshold == 50

\* line 205: model_factor[deformability > 0.5] = np.nan, on the array that
\* spline.ev returned; the boolean mask must have the array's shape
set_masked(model_factor, deformability) ==
    IF deformability.shape # model_factor.shape THEN Raise("IndexError")
    ELSE Ok([shape |-> model_factor.shape,
             vals |-> [p \in 1..Size(model_factor) |->
                 IF deformability.vals[p] > Threshold THEN NaN
                 ELSE Num(model_factor.vals[p])]])

\* lines 205-207, given the deformability and what spline_model returned
gated_from_205(d, s) ==
    IF IsExc(s.ret) THEN [d EXCEPT !.ret = s.ret, !.log = s.log]
    ELSE [d EXCEPT !.ret = set_masked(s.ret.val, d.ret.val), !.log = s.log]

\* lines 201-207, given what calculate_deformability returned
gated_from_201(width_test, ratio_perim_area_test, d) ==
    IF IsExc(d.ret) THEN d
    ELSE gated_from_205(d,
             spline_model(width_test, ratio_perim_area_test,
                          d.x_data, d.y_data, d.z_data, d.log))

spline_model_with_deformability(width_test, ratio_perim_area_test, width_data, ratio_perim_area_data, factor_data, log) ==
    gated_from_201(width_test, ratio_perim_area_test,
        calculate_deformability(width_test, ratio_perim_area_test,
            width_data, ratio_perim_area_data, factor_data, log))

(***************************************************************************)
(* calculate_percent_prediction_differences (lines 210-220).               *)
(***************************************************************************)
\* line 220, one entry: 100 * (factor - prediction) / factor as numpy
\* divides, in hundredths of a percent
percent_difference(factor, prediction) ==
    IF prediction.t = "nan" THEN NaN
    ELSE IF factor = 0
    THEN IF prediction.v = 0 THEN NaN
         ELSE Inf(IF prediction.v < 0 THEN 1 ELSE -1)
    ELSE Num((10000 * (factor - prediction.v)) \div factor)

\* one element of the list of predictions, given what the gated predictor
\* returned; after holds the caller's arrays as np.delete left them
collect_prediction(acc, after, g) ==
    [after EXCEPT !.ret = IF IsExc(g.ret) THEN g.ret
                          ELSE Ok(Append(acc.ret.val, g.ret.val.vals[1])),
                  !.log = g.log]

\* lines 212-218: the gated prediction at each calibration point from the
\* others, for the indices from i to n - 1, until an evaluation raises
RECURSIVE leave_one_out(_, _, _)
leave_one_out(i, n, acc) ==
    IF i >= n \/ IsExc(acc.ret) THEN acc
    ELSE LET w == DataIndex(acc.x_data, i)
             r == DataIndex(acc.y_data, i)
             dx == NpDelete(acc.x_data, i)
             dy == NpDelete(acc.y_data, i)
             dz == NpDelete(acc.z_data, i)
             after == [acc EXCEPT !.x_data = dx.arg, !.y_data = dy.arg,
                                  !.z_data = dz.arg]
         IN IF IsExc(r) THEN [acc EXCEPT !.ret = r]
            ELSE IF IsExc(dy.out)
            THEN [acc EXCEPT !.ret = dy.out, !.x_data = dx.arg]
            ELSE IF IsExc(dz.out)
            THEN [acc EXCEPT !.ret = dz.out, !.x_data = dx.arg, !.y_data = dy.arg]
            ELSE leave_one_out(i + 1, n,
                     collect_prediction(acc, after,
                         spline_model_with_deformability(
                             Scalar(w.val), Scalar(r.val),
                             dx.out.val, dy.out.val, dz.out.val, acc.log)))

\* line 220, given the list of predictions
percent_from_220(r) ==
    IF IsExc(r.ret) THEN r
    \* factor_data and predictions must broadcast
    ELSE IF Len(r.z_data) # Len(r.ret.val) /\ Len(r.z_data) # 1
                                           /\ Len(r.ret.val) # 1
    THEN [r EXCEPT !.ret = Raise("ValueError")]
    ELSE LET predictions == r.ret.val
             n == IF Len(predictions) = 1 THEN Len(r.z_data) ELSE Len(predictions)
             f(k) == r.z_data[IF Len(r.z_data) = 1 THEN 1 ELSE k]
             p(k) == predictions[IF Len(predictions) = 1 THEN 1 ELSE k]
         IN [r EXCEPT !.ret = Ok([shape |-> <<n>>,
                 vals |-> [k \in 1..n |-> percent_difference(f(k), p(k))]])]

calculate_percent_prediction_differences(width_data, ratio_perim_area_data, factor_data, log) ==
    percent_from_220(
        leave_one_out(0, Len(width_data),
            [ret |-> Ok(<<>>), x_data |-> width_data,
             y_data |-> ratio_perim_area_data, z_data |-> factor_data,
             log |-> log]))

(***************************************************************************)
(* The caller: the inputs it can hold and the calls it can make.           *)
(***************************************************************************)
\* calibration sequences of length n
WidthData(n) == [k \in 1..n |-> 4 + 2 * k]
RatioData(n) == [k \in 1..n |-> 30 + 3 * ((k * k) % 3)]
FactorData(n) == [k \in 1..n |-> 96 + 2 * k]
FactorDataWithZero(n) == [k \in 1..n |-> IF k = 2 THEN 0 ELSE 96 + 2 * k]

DataLens == 2..MaxData

\* the shapes of a query: scalar, 1-D and 2-D
Shapes ==
    {<<>>} \cup {<<n>> : n \in 0..MaxLen}
           \cup {<<r, c>> : r \in 1..MaxRows, c \in 1..MaxCols}

\* the shapes the ratio query may have beside a width query of shape sh: the
\* same, or one longer or one shorter along the last axis
RatioShapes(sh) ==
    IF sh = <<>> THEN {sh}
    ELSE LET n == Len(sh)
         IN {sh, [sh EXCEPT ![n] = @ + 1]}
                \cup (IF sh[n] > (IF n = 1 THEN 0 ELSE 1)
                      THEN {[sh EXCEPT ![n] = @ - 1]} ELSE {})

\* a query array of shape sh: from start, in steps of step, in row-major order
Grid(sh, start, step) ==
    [shape |-> sh, vals |-> [p \in 1..Product(sh) |-> start + (p - 1) * step]]

WidthStarts == {2, 9}
RatioStarts == {20, 36}

\* the inputs are well formed: one query shape, one calibration length
SameShapes == query_width.shape = query_ratio.shape
SameLengths == Len(cal_width) = Len(cal_ratio) /\ Len(cal_width) = Len(cal_factor)
WellFormed == SameShapes /\ SameLengths

Init ==
    /\ cal_width = WidthData(MaxData)
    /\ cal_ratio = RatioData(MaxData)
    /\ cal_factor = FactorData(MaxData)
    /\ query_width = Scalar(9)
    /\ query_ratio = Scalar(36)
    /\ op = "load"
    /\ ret = Ok(<<>>)
    /\ fits = <<>>
    /\ calls = <<>>

\* the caller builds new calibration arrays
LoadCalibration ==
    /\ \E nx \in DataLens, ny \in DataLens, nz \in DataLens :
          /\ cal_width' = WidthData(nx)
          /\ cal_ratio' = RatioData(ny)
          /\ cal_factor' \in {FactorData(nz), FactorDataWithZero(nz)}
    /\ op' = "load"
    /\ ret' = Ok(<<>>)
    /\ fits' = <<>>
    /\ calls' = <<>>
    /\ UNCHANGED <<query_width, query_ratio>>

\* the caller builds new query arrays
LoadQuery ==
    /\ \E sx \in Shapes, wx \in WidthStarts, wy \in RatioStarts :
          \E sy \in RatioShapes(sx) :
              /\ query_width' = Grid(sx, wx, 3)
              /\ query_ratio' = Grid(sy, wy, 2)
    /\ op' = "load"
    /\ ret' = Ok(<<>>)
    /\ fits' = <<>>
    /\ calls' = <<>>
    /\ UNCHANGED <<cal_width, cal_ratio, cal_factor>>

\* what a call leaves behind: the result, the logs, and the caller's
\* calibration arrays as the call left them
Returned(r) ==
    /\ ret' = r.ret
    /\ fits' = r.log.fits
    /\ calls' = r.log.calls
    /\ cal_width' = r.x_data
    /\ cal_ratio' = r.y_data
    /\ cal_factor' = r.z_data
    /\ UNCHANGED <<query_width, query_ratio>>

\* spline_model writes to none of its arguments
KeepData(r) ==
    [ret |-> r.ret, log |-> r.log, x_data |-> cal_width, y_data |-> cal_ratio,
     z_data |-> cal_factor]

CallSplineModel ==
    /\ op' = "spline_model"
    /\ Returned(
             KeepData(spline_model(query_width, query_ratio,
                                   cal_width, cal_ratio, cal_factor, NoLog)))

CallCalculateDeformability ==
    /\ op' = "calculate_deformability"
    /\ Returned(
             calculate_deformability(query_width, query_ratio,
                                     cal_width, cal_ratio, cal_factor, NoLog))

CallSplineModelWithDeformability ==
    /\ op' = "spline_model_with_deformability"
    /\ Returned(
             spline_model_with_deformability(query_width, query_ratio,
                                             cal_width, cal_ratio, cal_factor, NoLog))

CallPercentPredictionDifferences ==
    /\ op' = "calculate_percent_prediction_differences"
    /\ Returned(
             calculate_percent_prediction_differences(
                 cal_width, cal_ratio, cal_factor, NoLog))

Next ==
    \/ LoadCalibration
    \/ LoadQuery
    \/ CallSplineModel
    \/ CallCalculateDeformability
    \/ CallSplineModelWithDeformability
    \/ CallPercentPredictionDifferences

Spec == Init /\ [][Next]_vars

(***************************************************************************)
(* Properties.                                                             *)
(***************************************************************************)
Deformability == "calculate_deformability"
Gated == "spline_model_with_deformability"
PercentDifferences == "calculate_percent_prediction_differences"

NonEmptyQuery == Size(query_width) > 0

\* the cells (i, j) of a grid of shape dim, row by row
order_rows(dim) ==
    [p \in 1..(dim[1] * dim[2]) |-> <<(p - 1) \div dim[2], (p - 1) % dim[2]>>]

\* the single-point score and the unmasked prediction at flat position p of
\* the query the caller holds
ScoreAt(p) ==
    single_calculate_deformability(query_width.vals[p], query_ratio.vals[p],
                                   cal_width, cal_ratio, cal_factor, NoLog).ret

Unmasked ==
    spline_model(query_width, query_ratio, cal_width, cal_ratio, cal_factor, NoLog).ret

\* C1: after spline_model_with_deformability on well-formed inputs, every
\* entry whose deformability is above 0.5 is nan, and every entry whose
\* deformability is at most 0.5 is the spline_model prediction of that entry.
C1_MaskingAtThreshold ==
    (op = Gated /\ WellFormed /\ NonEmptyQuery) =>
        /\ IsOk(ret)
        /\ IsOk(Unmasked)
        /\ \A p \in 1..Size(query_width) :
              /\ IsOk(ScoreAt(p))
              /\ ScoreAt(p).val > Threshold => ret.val.vals[p] = NaN
              /\ ScoreAt(p).val <= Threshold =>
                     ret.val.vals[p] = Num(Unmasked.val.vals[p])

\* C2: calculate_deformability and spline_model_with_deformability, on a
\* well-formed scalar, 1-D or 2-D query, return an array of the query's shape.
C2_ShapePreserved ==
    (op \in {Deformability, Gated} /\ WellFormed /\ NonEmptyQuery) =>
        /\ IsOk(ret)
        /\ ret.val.shape = query_width.shape

\* C3: on a 2-D query, calculate_deformability scores every cell (i, j)
\* exactly once and the output entry (i, j) is the score of cell (i, j).
C3_EveryCellOnceInPlace ==
    (op = Deformability /\ WellFormed /\ Len(query_width.shape) = 2) =>
        LET cells == order_rows(query_width.shape)
        IN /\ IsOk(ret)
           /\ Len(calls) = Len(cells)
           /\ \A p \in 1..Len(cells) : \E k \in 1..Len(calls) : calls[k] = cells[p]
           /\ ret.val.shape = query_width.shape
           /\ \A p \in 1..Len(cells) :
                 IsOk(ScoreAt(p)) /\ ret.val.vals[p] = ScoreAt(p).val

\* the box b covers the widths xs and the ratios ys
BoxCovers(b, xs, ys) ==
    /\ \A k \in 1..Len(xs) : b[1] <= xs[k] /\ xs[k] <= b[2]
    /\ \A k \in 1..Len(ys) : b[3] <= ys[k] /\ ys[k] <= b[4]

\* the refit of lines 101-106 that follows the initial fit f
RefitAfter(f) ==
    single_adjusted_fit(NpAppend(f.x, f.qx[1]).out, NpAppend(f.y, f.qy[1]).out,
                        NpAppend(f.z, f.z[1]).out)

\* C4: the box of every fit that spline_model and the single-point test
\* perform covers the calibration widths and ratios of the fit, the query
\* widths and ratios, and so every point the fit is evaluated at; so does
\* the box of the refits of the adjusted data that follow an initial fit.
C4_BoundingBoxContainment ==
    \A k \in 1..Len(fits) :
        LET f == fits[k]
        IN /\ BoxCovers(f.bbox, f.x, f.y)
           /\ BoxCovers(f.bbox, f.qx, f.qy)
           /\ \A p \in 1..Len(f.at) :
                 BoxCovers(f.bbox, <<f.at[p][1]>>, <<f.at[p][2]>>)
           /\ f.who = "initial" =>
                 /\ IsOk(RefitAfter(f))
                 /\ BoxCovers(RefitAfter(f).val.bbox, f.x, f.y)
                 /\ BoxCovers(RefitAfter(f).val.bbox, f.qx, f.qy)

\* a fit of spline_model on a 1-D query with a width above the calibration
\* range and a ratio below it, evaluated at each query point
C4_Witness ==
    /\ op = "spline_model"
    /\ IsOk(ret)
    /\ Len(fits) = 1
    /\ Len(fits[1].at) = 2
    /\ fits[1].bbox[2] > SeqMax(fits[1].x)
    /\ fits[1].bbox[3] < SeqMin(fits[1].y)

\* the value the claim gives the single-point test at (xt, yt)
ClaimedDeformability(xt, yt) ==
    LET box == DefaultBBox(Append(cal_width, xt), Append(cal_ratio, yt))
        baseline == Surface(
            SmoothBivariateSpline(cal_width, cal_ratio, cal_factor, box).val, xt, yt)
        posModel == Surface(
            SmoothBivariateSpline(Append(cal_width, xt), Append(cal_ratio, yt),
                Append(cal_factor, baseline + deviation), NoBBox).val, xt, yt)
        negModel == Surface(
            SmoothBivariateSpline(Append(cal_width, xt), Append(cal_ratio, yt),
                Append(cal_factor, baseline - deviation), NoBBox).val, xt, yt)
    IN SeqMax(<<(100 * (posModel - baseline)) \div deviation,
                (100 * (baseline - negModel)) \div deviation>>)

\* C5: the single-point test returns max((posModel - baseline) / 0.02,
\* (baseline - negModel) / 0.02) of the baseline fit and the two refits with
\* the one appended point.
C5_DeformabilityFormula ==
    (op = Deformability /\ WellFormed /\ query_width.shape = <<>>) =>
        /\ IsOk(ret)
        /\ ret.val.vals[1] =
               ClaimedDeformability(query_width.vals[1], query_ratio.vals[1])

\* the gated prediction at calibration point i (from 1) from the others
LeaveOneOutPrediction(i) ==
    spline_model_with_deformability(
        Scalar(cal_width[i]), Scalar(cal_ratio[i]),
        NpDelete(cal_width, i - 1).out.val, NpDelete(cal_ratio, i - 1).out.val,
        NpDelete(cal_factor, i - 1).out.val, NoLog).ret

NoZeroFactor == \A i \in 1..Len(cal_factor) : cal_factor[i] # 0

\* C6: calculate_percent_prediction_differences on n calibration points
\* returns n entries, entry i being 100 * (factor i - prediction i) / factor i
\* with prediction i the gated prediction at point i from the other n - 1.
C6_LeaveOneOut ==
    (op = PercentDifferences /\ SameLengths /\ NoZeroFactor) =>
        /\ IsOk(ret)
        /\ Size(ret.val) = Len(cal_width)
        /\ \A i \in 1..Len(cal_width) :
              /\ IsOk(LeaveOneOutPrediction(i))
              /\ ret.val.vals[i] =
                     percent_difference(cal_factor[i],
                                        LeaveOneOutPrediction(i).val.vals[1])

ShapeErrors == {"ValueError", "IndexError"}

\* C7: with query arrays of different shapes or calibration sequences of
\* different lengths, spline_model, calculate_deformability and
\* spline_model_with_deformability raise a shape error, having evaluated no
\* fit at any query point.
C7_MismatchSurfacedFirst ==
    (op \in {"spline_model", Deformability, Gated} /\ ~WellFormed /\ NonEmptyQuery) =>
        /\ IsExc(ret)
        /\ ret.val \in ShapeErrors
        /\ \A k \in 1..Len(fits) : fits[k].at = <<>>

\* C8: with a zero among the calibration factors,
\* calculate_percent_prediction_differences still returns n entries: inf or
\* nan where the factor is zero, the leave-one-out value elsewhere.
C8_ZeroFactorNonFinite ==
    (op = PercentDifferences /\ SameLengths /\ ~NoZeroFactor) =>
        /\ IsOk(ret)
        /\ Size(ret.val) = Len(cal_width)
        /\ \A i \in 1..Len(cal_width) :
              /\ cal_factor[i] = 0 => ret.val.vals[i].t \in {"inf", "nan"}
              /\ cal_factor[i] # 0 =>
                     /\ IsOk(LeaveOneOutPrediction(i))
                     /\ ret.val.vals[i] =
                            percent_difference(cal_factor[i],
                                LeaveOneOutPrediction(i).val.vals[1])

\* the entry of query position p when that point is submitted alone
Alone(p) ==
    IF op = Gated
    THEN spline_model_with_deformability(
             Scalar(query_width.vals[p]), Scalar(query_ratio.vals[p]),
             cal_width, cal_ratio, cal_factor, NoLog).ret
    ELSE calculate_deformability(
             Scalar(query_width.vals[p]), Scalar(query_ratio.vals[p]),
             cal_width, cal_ratio, cal_factor, NoLog).ret

\* C9: the entry that calculate_deformability and
\* spline_model_with_deformability return for a point of a batch is the
\* entry they return for that point submitted alone.
C9_PointsIndependent ==
    (op \in {Deformability, Gated} /\ WellFormed /\ NonEmptyQuery) =>
        /\ IsOk(ret)
        /\ \A p \in 1..Size(query_width) :
              IsOk(Alone(p)) /\ ret.val.vals[p] = Alone(p).val.vals[1]

\* C10: no call changes the caller's calibration or query arrays.
C10_InputsNotModified ==
    [][op' # "load" =>
          /\ cal_width' = cal_width
          /\ cal_ratio' = cal_ratio
          /\ cal_factor' = cal_factor
          /\ query_width' = query_width
          /\ query_ratio' = query_ratio]_vars

\* calculate_percent_prediction_differences has deleted index 0 and the
\* single-point test has appended the left-out point and fitted
C10_Witness ==
    /\ op = PercentDifferences
    /\ Len(fits) = 1
    /\ Len(fits[1].x) = Len(cal_width) - 1
    /\ fits[1].qx = <<cal_width[1]>>
    /\ calls = <<(<<>>)>>

====
